---- MODULE Spec2Model ----
(***************************************************************************)
(* ChatDevApp: the API client (src/api_client.py and the older client of   *)
(* src/main.py), and the task poller of the two front ends                 *)
(* (AppGeneratorView in src/views/app_generator.py, start_task_polling in  *)
(* src/main.py).                                                           *)
(*                                                                         *)
(* The repository holds two applications: the monolith src/main.py, with   *)
(* its own APIClient class, and the view-based application built from      *)
(* src/api_client.py and src/views.  The variable app says which of the    *)
(* two is running; it is chosen in Init and never changes.                 *)
(*                                                                         *)
(* Strings the code inspects character by character (URLs) are sequences   *)
(* of one-character strings; strings it only stores and compares (API      *)
(* keys, statuses) are TLA+ strings.                                       *)
(***************************************************************************)
EXTENDS Integers, Sequences, FiniteSets, TLC

VARIABLES
    app,              \* "main" (src/main.py) or "views" (src/api_client.py + src/views)
    \* ---- API client (self.base_url, self.api_key) and what it last did
    base_url,         \* APIClient.base_url
    api_key,          \* APIClient.api_key
    suppliedUrl,      \* history: the URL most recently given to __init__ / set_base_url
    request,          \* the HTTP request issued by the most recent client operation
    outcome,          \* how the most recent client operation ended
    logger,           \* whether a logger was passed to APIClient.__init__
    call,             \* history: the most recent client operation, its arguments, the server's answer
    errorInfo,        \* what the message of the error raised by that operation carries
    settings,         \* what the most recent start-up loaded from the settings file
    \* ---- task poller (generate view)
    current_task_id,  \* current_task_id; 0 is None
    tasksCreated,     \* number of tasks the server has created (the next id is +1)
    timers,           \* number of scheduled status checks that have not fired yet
    task_status_timer,\* main.py: "None", "pending" or "fired" (the Timer object referenced)
    generate_disabled,\* main.py: generate_button.disabled
    progress_visible, \* main.py: generate_progress.visible
    btnTask,          \* views: task id bound in the Check Status / Cancel Task buttons (0: no buttons)
    cancelShown,      \* views: the Cancel Task button is in the button row
    fetches,          \* history: number of get_task_status requests issued
    lastOp,           \* history: the handler that ran last, the response it fetched, what it showed
    prevStatus,       \* history: the status fetched by the handler before the last ("none": it fetched nothing)
    cancelledTask,    \* history: the task the user cancelled successfully (0: none)
    pollTask,         \* main.py: the task_id captured by start_task_polling's closure (0: none)
    \* ---- normalisation applied to an arbitrary input
    normIn,           \* the URL given
    normOut,          \* _normalize_base_url(normIn), once computed
    normAgain,        \* _normalize_base_url(normOut), once computed
    normDone,         \* how many of the two have been computed (0, 1, 2)
    \* ---- the server, as the poller meets it
    serverLeft,       \* how many more status requests fail or find the task unfinished
    \* ---- saving the settings while the poll timer runs
    file,             \* the settings file: the url and the key it holds
    save,             \* the save-settings handler: where it is, what it saves, what was there
    fetch,            \* the status request being built: where it is, the base URL it read
    \* ---- task views
    card,             \* the task shown by a view, the APK actions it offers, the last click
    list,             \* views: the task list's limit, offset, total_tasks and status filter
    \* ---- poll chains
    chain,            \* history: the task each pending timer's chain was started for, and
                      \* the one of the timer that fired last
    \* ---- the log sink
    logged            \* the messages the last operation of the client passed to its logger

clientVars == <<base_url, api_key, suppliedUrl, request, outcome, logger, call, errorInfo,
                settings>>
pollVars == <<current_task_id, tasksCreated, timers, task_status_timer, generate_disabled,
              progress_visible, btnTask, cancelShown, fetches, lastOp, prevStatus,
              cancelledTask, pollTask>>
normVars == <<normIn, normOut, normAgain, normDone>>
saveVars == <<file, save, fetch>>
uiVars == <<card, list>>
envVars == <<serverLeft, saveVars, uiVars, chain, logged>>
vars == <<app, clientVars, pollVars, normVars, envVars>>

-----------------------------------------------------------------------------
(* Bounds *)

\* URLs given to the normalisation are concatenations of at most MaxParts pieces
MaxParts == 5
\* URLs given to a client (constructor, set_base_url) have at most MaxClientParts pieces
MaxClientParts == 2
\* tasks the server creates in one run
MaxTasks == 2
\* status requests issued in one run
MaxFetches == 4
\* scheduled status checks pending at once
MaxTimers == 3
\* full pages of tasks the server may report
MaxPages == 3

-----------------------------------------------------------------------------
(* Character strings *)

Concat(s, t) == s \o t

EndsWith(s, suffix) ==
    /\ Len(s) >= Len(suffix)
    /\ SubSeq(s, Len(s) - Len(suffix) + 1, Len(s)) = suffix

\* Python's `sub in s`
Contains(s, sub) ==
    \E i \in 1..(Len(s) - Len(sub) + 1) : SubSeq(s, i, i + Len(sub) - 1) = sub

SLASH == <<"/">>
\* "api/v1/"
API_PREFIX == <<"a", "p", "i", "/", "v", "1", "/">>
\* "http://localhost:8000" is written as the one character h
HOST == <<"h">>
\* main.py: DEFAULT_API_URL = "http://localhost:8000/api/v1"
DEFAULT_API_URL == HOST \o SLASH \o <<"a", "p", "i", "/", "v", "1">>
\* api_client.py: base_url: str = "http://localhost:8000/"
DEFAULT_BASE_URL == HOST \o SLASH

\* the pieces URLs are built from: a host, a slash, "api/v1", and "api" (a near miss)
UrlPieces == { HOST, SLASH, <<"a", "p", "i", "/", "v", "1">>, <<"a", "p", "i">> }

RECURSIVE UrlsOfParts(_)
UrlsOfParts(n) ==
    IF n = 0 THEN { <<>> }
    ELSE LET shorter == UrlsOfParts(n - 1)
         IN  shorter \cup { Concat(u, p) : u \in shorter, p \in UrlPieces }

UrlInputs == UrlsOfParts(MaxParts)
ClientUrls == UrlsOfParts(MaxClientParts) \cup { DEFAULT_API_URL, DEFAULT_BASE_URL }

-----------------------------------------------------------------------------
(* src/api_client.py: APIClient._normalize_base_url *)

\* if not base_url.endswith("/"): base_url += "/"
WithTrailingSlash(u) == IF ~EndsWith(u, SLASH) THEN Concat(u, SLASH) ELSE u

ApiClient_normalize_base_url_NoSlash(u) ==
    IF ~EndsWith(u, API_PREFIX) /\ ~Contains(u, API_PREFIX)
    THEN Concat(u, API_PREFIX) ELSE u

ApiClient_normalize_base_url_AlwaysPrefix(u) ==
    Concat(WithTrailingSlash(u), API_PREFIX)

ApiClient_normalize_base_url(u) ==
    LET slashed == WithTrailingSlash(u)
    IN  IF ~EndsWith(slashed, API_PREFIX) /\ ~Contains(slashed, API_PREFIX)
        THEN Concat(slashed, API_PREFIX)
        ELSE slashed

\* src/main.py: APIClient.set_base_url, the value it stores
\* if base_url and not base_url.endswith("/"): base_url += "/"
MainClient_normalize(u) ==
    IF u # <<>> /\ ~EndsWith(u, SLASH) THEN Concat(u, SLASH) ELSE u

-----------------------------------------------------------------------------
(* The API client: configuration and the delete operation *)

Apps == { "main", "views" }
Keys == { "", "k1", "k2" }
\* a header or body field that is not sent
ABSENT == "<absent>"
\* task ids a caller may pass
TaskIdInputs == -1..MaxTasks
\* what the server answers: an HTTP status code, or 0 for a transport failure
ResponseCodes == { 0, 200, 400, 401, 404, 422, 500 }

\* lengths of the task description accepted by generate_project
MinTaskLen == 10
MaxTaskLen == 2000
\* page sizes accepted by list_tasks
MinLimit == 1
MaxLimit == 100
\* the page size of the task list view
DefaultLimit == 10

\* arguments a caller may pass
TaskLenInputs == { 0, MinTaskLen - 1, MinTaskLen, MaxTaskLen, MaxTaskLen + 1 }
NameInputs == { "", "App" }
LimitInputs == { MinLimit - 1, MinLimit, DefaultLimit, MaxLimit, MaxLimit + 1 }
OffsetInputs == { -1, 0, DefaultLimit }
\* organization / timestamp of build_apk: None or "", the placeholder, a real value
PLACEHOLDER == "string"
OptionalInputs == { "", PLACEHOLDER, "acme" }

\* what the server answers: the status code and whether the JSON body has a "detail"
Answers ==
    { a \in [ code : ResponseCodes, has_detail : BOOLEAN ] :
        a.has_detail => a.code \in { 400, 422 } }

NoRequest ==
    [ method |-> "NONE", endpoint |-> "", task_id |-> 0, base |-> <<>>,
      header_api_key |-> ABSENT, body_api_key |-> ABSENT, query_api_key |-> ABSENT,
      body_organization |-> ABSENT, body_timestamp |-> ABSENT ]

\* requests.get/post/delete(f"{base}{endpoint}[/{task_id}]", headers=..., json=..., params=...)
Req(method, endpoint, task_id, base, header_key, body_key, query_key) ==
    [ NoRequest EXCEPT !.method = method, !.endpoint = endpoint, !.task_id = task_id,
                       !.base = base, !.header_api_key = header_key,
                       !.body_api_key = body_key, !.query_api_key = query_key ]

NoCall ==
    [ op |-> "none", task_len |-> 0, name |-> "", limit |-> 0, offset |-> 0, task_id |-> 0,
      project_name |-> "", organization |-> "", timestamp |-> "",
      code |-> 0, has_detail |-> FALSE ]

\* the task id and the server detail an error message carries
NoInfo == [ task |-> 0, detail |-> "none" ]

\* an operation that raises before any request is sent
Raised(kind) == [ request |-> NoRequest, outcome |-> kind, info |-> NoInfo ]
\* an operation that sent req and ended as kind
Sent(req, kind, info) == [ request |-> req, outcome |-> kind, info |-> info ]

\* error_data.get("detail", <default text>)
DetailOf(c) == [ NoInfo EXCEPT !.detail = IF c.has_detail THEN "server" ELSE "default" ]
\* f"Task with ID {task_id} not found"
TaskOf(c) == [ NoInfo EXCEPT !.task = c.task_id ]

\* src/api_client.py: the "api-key" header of _get_headers_with_api_key
ApiClient_get_headers_with_api_key_NoKey(key) == ABSENT

ApiClient_get_headers_with_api_key(key) == IF key # "" THEN key ELSE ABSENT

\* src/main.py: headers["api-key"] = self.api_key
MainClient_delete_headers(key) == key

RaisesForStatus_ServerErrorsOnly(code) == code = 0 \/ code >= 500

\* response.raise_for_status(): any 4xx/5xx raises, as does a transport failure
RaisesForStatus(code) == code = 0 \/ code >= 400

\* ---- logging
\* src/main.py: "if self.logger: self.logger.log(...)" around every message
MainClient_log_Unguarded(has_logger) == IF has_logger THEN "logged" ELSE "raises"

MainClient_log(has_logger) == IF has_logger THEN "logged" ELSE "skipped"

\* src/api_client.py: self.logger = logger or logging.getLogger(__name__), so _log
\* always has a logger to write to
ApiClient_log(has_logger) == "logged"

\* a message written to None raises AttributeError, which no handler of the client catches
WithLog(lg, res) == IF lg = "raises" THEN Raised("AttributeError") ELSE res

\* ---- src/api_client.py: the operations, as the request sent and the way they end
ApiClient_task_valid_NoUpper(len) == len # 0 /\ len >= MinTaskLen

\* generate_project: not (not task or len(task) < 10 or len(task) > 2000)
ApiClient_task_valid(len) == len # 0 /\ len >= MinTaskLen /\ len <= MaxTaskLen

ApiClient_limit_valid_NoUpper(limit) == limit >= MinLimit

\* list_tasks: not (limit < 1 or limit > 100)
ApiClient_limit_valid(limit) == limit >= MinLimit /\ limit <= MaxLimit

\* not (not isinstance(task_id, int) or task_id <= 0); None is 0 here
ApiClient_task_id_valid(task_id) == task_id > 0

ApiClient_generate_project(c, key, base) ==
    IF ~ApiClient_task_valid(c.task_len) \/ c.name = ""
    THEN Raised("ValueError")
    ELSE LET req == Req("POST", "generate", 0, base, ABSENT, key, ABSENT)
         IN  CASE c.code = 401 -> Sent(req, "AuthFailed", NoInfo)
               [] c.code = 422 -> Sent(req, "ValidationError", DetailOf(c))
               [] RaisesForStatus(c.code) -> Sent(req, "RequestFailed", NoInfo)
               [] OTHER -> Sent(req, "ok", NoInfo)

ApiClient_get_task_status_Generic404(c, key, base) ==
    IF ~ApiClient_task_id_valid(c.task_id)
    THEN Raised("ValueError")
    ELSE LET req == Req("GET", "status", c.task_id, base, ABSENT, ABSENT, ABSENT)
         IN  IF RaisesForStatus(c.code) THEN Sent(req, "RequestFailed", NoInfo)
                                        ELSE Sent(req, "ok", NoInfo)

ApiClient_get_task_status(c, key, base) ==
    IF ~ApiClient_task_id_valid(c.task_id)
    THEN Raised("ValueError")
    ELSE LET req == Req("GET", "status", c.task_id, base, ABSENT, ABSENT, ABSENT)
         IN  CASE c.code = 404 -> Sent(req, "NotFound", TaskOf(c))
               [] RaisesForStatus(c.code) -> Sent(req, "RequestFailed", NoInfo)
               [] OTHER -> Sent(req, "ok", NoInfo)

ApiClient_list_tasks(c, key, base) ==
    IF ~ApiClient_limit_valid(c.limit) \/ c.offset < 0
    THEN Raised("ValueError")
    ELSE LET req == Req("GET", "tasks", 0, base, ABSENT, ABSENT, ABSENT)
         IN  CASE c.code = 422 -> Sent(req, "ValidationError", DetailOf(c))
               [] RaisesForStatus(c.code) -> Sent(req, "RequestFailed", NoInfo)
               [] OTHER -> Sent(req, "ok", NoInfo)

ApiClient_cancel_task(c, key, base) ==
    IF ~ApiClient_task_id_valid(c.task_id)
    THEN Raised("ValueError")
    ELSE LET req == Req("POST", "cancel", c.task_id, base, ABSENT, key, ABSENT)
         IN  CASE c.code = 404 -> Sent(req, "NotFound", TaskOf(c))
               [] c.code = 400 -> Sent(req, "CannotCancel", DetailOf(c))
               [] c.code = 401 -> Sent(req, "AuthFailed", NoInfo)
               [] RaisesForStatus(c.code) -> Sent(req, "RequestFailed", NoInfo)
               [] OTHER -> Sent(req, "ok", NoInfo)

\* delete_task
ApiClient_delete_task_result(c, key, base) ==
    IF ~ApiClient_task_id_valid(c.task_id)
    THEN Raised("ValueError")
    ELSE LET req == Req("DELETE", "task", c.task_id, base,
                        ApiClient_get_headers_with_api_key(key), ABSENT, ABSENT)
         IN  CASE c.code = 404 -> Sent(req, "NotFound", TaskOf(c))
               [] c.code = 401 -> Sent(req, "AuthFailed", NoInfo)
               [] RaisesForStatus(c.code) -> Sent(req, "RequestFailed", NoInfo)
               [] OTHER -> Sent(req, "ok", NoInfo)

\* build_apk: if organization and organization != "string": data["organization"] = ...
ApiClient_body_organization(v) == IF v # "" /\ v # PLACEHOLDER THEN v ELSE ABSENT
\* build_apk: if timestamp: data["timestamp"] = timestamp
ApiClient_body_timestamp(v) == IF v # "" THEN v ELSE ABSENT

ApiClient_build_apk(c, key, base) ==
    IF c.project_name = ""
    THEN Raised("ValueError")
    ELSE LET req == [ Req("POST", "build-apk", 0, base,
                          ApiClient_get_headers_with_api_key(key), key, ABSENT)
                      EXCEPT !.body_organization = ApiClient_body_organization(c.organization),
                             !.body_timestamp = ApiClient_body_timestamp(c.timestamp) ]
         IN  CASE c.code = 404 -> Sent(req, "NotFound", NoInfo)
               [] c.code = 401 -> Sent(req, "AuthFailed", NoInfo)
               [] c.code = 422 -> Sent(req, "ValidationError", DetailOf(c))
               [] RaisesForStatus(c.code) -> Sent(req, "RequestFailed", NoInfo)
               [] OTHER -> Sent(req, "ok", NoInfo)

ApiClient_health_check(c, key, base) ==
    LET req == Req("GET", "health", 0, base, ABSENT, ABSENT, ABSENT)
    IN  IF RaisesForStatus(c.code) THEN Sent(req, "RequestFailed", NoInfo)
                                   ELSE Sent(req, "ok", NoInfo)

\* str.replace(sub, ""): every occurrence of sub removed, left to right
RECURSIVE RemoveAll(_, _)
RemoveAll(u, sub) ==
    IF Len(u) < Len(sub) THEN u
    ELSE IF SubSeq(u, 1, Len(sub)) = sub
         THEN RemoveAll(SubSeq(u, Len(sub) + 1, Len(u)), sub)
         ELSE <<Head(u)>> \o RemoveAll(Tail(u), sub)

\* simple_health_check: self.base_url.replace("api/v1/", "") + "health"
ApiClient_simple_health_check(c, key, base) ==
    LET req == Req("GET", "health", 0, RemoveAll(base, API_PREFIX), ABSENT, ABSENT, ABSENT)
    IN  IF RaisesForStatus(c.code) THEN Sent(req, "RequestFailed", NoInfo)
                                   ELSE Sent(req, "ok", NoInfo)

\* ---- src/main.py: the operations of its own APIClient; none validates its arguments
\* and none looks at the status code beyond raise_for_status()
MainClient_ended(req, c) ==
    IF RaisesForStatus(c.code) THEN Sent(req, "RequestFailed", NoInfo)
                               ELSE Sent(req, "ok", NoInfo)

\* get_tasks: params = {"api_key": ..., "limit": ..., "offset": ...}
MainClient_get_tasks(c, key, base) ==
    MainClient_ended(Req("GET", "tasks", 0, base, ABSENT, ABSENT, key), c)

\* get_task_status: params = self._get_auth_data()
MainClient_get_task_status(c, key, base) ==
    MainClient_ended(Req("GET", "status", c.task_id, base, ABSENT, ABSENT, key), c)

MainClient_create_task(c, key, base) ==
    MainClient_ended(Req("POST", "generate", 0, base, ABSENT, key, ABSENT), c)

MainClient_cancel_task(c, key, base) ==
    MainClient_ended(Req("POST", "cancel", c.task_id, base, ABSENT, key, ABSENT), c)

MainClient_delete_task_result(c, key, base) ==
    MainClient_ended(Req("DELETE", "task", c.task_id, base,
                         MainClient_delete_headers(key), ABSENT, ABSENT), c)

\* build_apk: if organization: ... / if timestamp: ...
MainClient_body_optional(v) == IF v # "" THEN v ELSE ABSENT

MainClient_build_apk(c, key, base) ==
    MainClient_ended([ Req("POST", "build-apk", 0, base, ABSENT, key, ABSENT)
                       EXCEPT !.body_organization = MainClient_body_optional(c.organization),
                              !.body_timestamp = MainClient_body_optional(c.timestamp) ], c)

\* ---- the client of the running application
ClientOps ==
    { "generate", "status", "list", "cancel", "delete", "build_apk", "health",
      "simple_health" }

\* the operation c.op of the client of application a, holding key and base, constructed
\* with or without a logger
ClientResult(a, c, key, base, has_logger) ==
    IF a = "views"
    THEN WithLog(ApiClient_log(has_logger),
                 CASE c.op = "generate" -> ApiClient_generate_project(c, key, base)
                   [] c.op = "status" -> ApiClient_get_task_status(c, key, base)
                   [] c.op = "list" -> ApiClient_list_tasks(c, key, base)
                   [] c.op = "cancel" -> ApiClient_cancel_task(c, key, base)
                   [] c.op = "delete" -> ApiClient_delete_task_result(c, key, base)
                   [] c.op = "build_apk" -> ApiClient_build_apk(c, key, base)
                   [] c.op = "health" -> ApiClient_health_check(c, key, base)
                   [] OTHER -> ApiClient_simple_health_check(c, key, base))
    ELSE WithLog(MainClient_log(has_logger),
                 CASE c.op = "generate" -> MainClient_create_task(c, key, base)
                   [] c.op = "status" -> MainClient_get_task_status(c, key, base)
                   [] c.op = "list" -> MainClient_get_tasks(c, key, base)
                   [] c.op = "cancel" -> MainClient_cancel_task(c, key, base)
                   [] c.op = "delete" -> MainClient_delete_task_result(c, key, base)
                   [] OTHER -> MainClient_build_apk(c, key, base))

\* nothing loaded from the settings file yet
NoSettings == [ file |-> "none", raised |-> FALSE, url |-> <<>>, key |-> "" ]

\* APIClient.__init__ of the running application
ConstructedBaseUrl(a, u) ==
    IF a = "views" THEN ApiClient_normalize_base_url(u) ELSE u

InitClientIdle ==
    /\ request = NoRequest
    /\ outcome = "none"
    /\ call = NoCall
    /\ errorInfo = NoInfo
    /\ settings = NoSettings

InitClientDefault ==
    /\ suppliedUrl = (IF app = "views" THEN DEFAULT_BASE_URL ELSE DEFAULT_API_URL)
    /\ base_url = ConstructedBaseUrl(app, suppliedUrl)
    /\ logger = TRUE
    /\ InitClientIdle

InitClientAny ==
    /\ suppliedUrl \in ClientUrls
    /\ base_url = ConstructedBaseUrl(app, suppliedUrl)
    /\ api_key \in Keys
    /\ logger = TRUE
    /\ InitClientIdle

\* the setters assign first and write their message afterwards
SetterOutcome(a, has_logger) ==
    LET lg == IF a = "views" THEN ApiClient_log(has_logger) ELSE MainClient_log(has_logger)
    IN  IF lg = "raises" THEN "AttributeError" ELSE "ok"

\* APIClient.set_base_url (both clients)
Client_set_base_url(u) ==
    /\ base_url' = (IF app = "views" THEN ApiClient_normalize_base_url(u)
                                     ELSE MainClient_normalize(u))
    /\ ~settings.raised
    /\ suppliedUrl' = u
    /\ request' = NoRequest
    /\ outcome' = SetterOutcome(app, logger)
    /\ call' = [ NoCall EXCEPT !.op = "set_base_url" ]
    /\ errorInfo' = NoInfo
    /\ UNCHANGED <<api_key, logger, settings>>

\* APIClient.set_api_key (both clients)
Client_set_api_key(k) ==
    /\ ~settings.raised
    /\ api_key' = k
    /\ request' = NoRequest
    /\ outcome' = SetterOutcome(app, logger)
    /\ call' = [ NoCall EXCEPT !.op = "set_api_key" ]
    /\ errorInfo' = NoInfo
    /\ UNCHANGED <<base_url, suppliedUrl, logger, settings>>

\* one operation of the client: the request it sends, how it ends, what its error carries
Client_call(c) ==
    LET res == ClientResult(app, c, api_key, base_url, logger)
    IN  /\ ~settings.raised
        /\ request' = res.request
        /\ outcome' = res.outcome
        /\ errorInfo' = res.info
        \* an operation that sent nothing got no answer
        /\ call' = IF res.request = NoRequest
                   THEN [ c EXCEPT !.code = 0, !.has_detail = FALSE ]
                   ELSE c
        /\ UNCHANGED <<base_url, api_key, suppliedUrl, logger, settings>>

\* src/api_client.py: APIClient.delete_task
ApiClient_delete_task(task_id, code) ==
    /\ app = "views"
    /\ Client_call([ NoCall EXCEPT !.op = "delete", !.task_id = task_id, !.code = code ])

\* src/main.py: APIClient.delete_task
MainClient_delete_task(task_id, code) ==
    /\ app = "main"
    /\ Client_call([ NoCall EXCEPT !.op = "delete", !.task_id = task_id, !.code = code ])

Client_generate_project ==
    \E n \in TaskLenInputs, nm \in NameInputs, a \in Answers :
        Client_call([ NoCall EXCEPT !.op = "generate", !.task_len = n, !.name = nm,
                                    !.code = a.code, !.has_detail = a.has_detail ])

Client_get_task_status ==
    \E id \in TaskIdInputs, a \in Answers :
        Client_call([ NoCall EXCEPT !.op = "status", !.task_id = id,
                                    !.code = a.code, !.has_detail = a.has_detail ])

Client_list_tasks ==
    \E l \in LimitInputs, o \in OffsetInputs, a \in Answers :
        Client_call([ NoCall EXCEPT !.op = "list", !.limit = l, !.offset = o,
                                    !.code = a.code, !.has_detail = a.has_detail ])

Client_cancel_task ==
    \E id \in TaskIdInputs, a \in Answers :
        Client_call([ NoCall EXCEPT !.op = "cancel", !.task_id = id,
                                    !.code = a.code, !.has_detail = a.has_detail ])

Client_build_apk ==
    \E pn \in NameInputs, org \in OptionalInputs, ts \in OptionalInputs, a \in Answers :
        Client_call([ NoCall EXCEPT !.op = "build_apk", !.project_name = pn,
                                    !.organization = org, !.timestamp = ts,
                                    !.code = a.code, !.has_detail = a.has_detail ])

\* src/api_client.py only: health_check and simple_health_check
ApiClient_health_checks ==
    /\ app = "views"
    /\ \E op \in { "health", "simple_health" }, code \in ResponseCodes :
          Client_call([ NoCall EXCEPT !.op = op, !.code = code ])

\* ---- the messages an operation passes to the logger: what each is about and the
\* API key value written into it (ABSENT: none)
Msg(about, key) == [ about |-> about, api_key |-> key ]

\* src/api_client.py: every operation validates its arguments before its first _log;
\* delete_task logs the headers it sends, build_apk the headers and the payload; the
\* other messages hold task ids, names, the server's answer or the text of the
\* exception (whose URL has no query string)
ApiClient_logged(c, out, key) ==
    IF out = "ValueError"
    THEN {}
    ELSE { Msg("text", ABSENT) }
         \cup (IF c.op \in { "delete", "build_apk" }
               THEN { Msg("headers", ApiClient_get_headers_with_api_key(key)) }
               ELSE {})
         \cup (IF c.op = "build_apk" THEN { Msg("payload", key) } ELSE {})

\* src/main.py: "if self.logger:" around every message; none holds headers or payload.
\* The except branch logs str(e): when raise_for_status raised, the text of the
\* HTTPError ends with "for url: <url>", query string included
MainClient_logged(c, req, out, has_logger) ==
    IF ~has_logger
    THEN {}
    ELSE { Msg("text", ABSENT) }
         \cup (IF out = "RequestFailed" /\ c.code >= 400
               THEN { Msg("error", req.query_api_key) }
               ELSE {})

\* set_api_key: "API key updated"
Client_set_api_key_logged(a, has_logger) ==
    IF a = "views" \/ has_logger THEN { Msg("text", ABSENT) } ELSE {}

\* what the operation that has just run (call', request', outcome') has logged
Client_logs ==
    logged' = IF call'.op = "set_api_key"
              THEN Client_set_api_key_logged(app, logger)
              ELSE IF app = "views"
              THEN ApiClient_logged(call', outcome', api_key)
              ELSE MainClient_logged(call', request', outcome', logger)

-----------------------------------------------------------------------------
(* Start-up: the settings file is loaded and the configuration is built from it *)

\* the URL and the key a settings file written by the application holds
FILE_URL == HOST \o SLASH \o <<"a", "p", "i">>
FILE_KEY == "k1"

\* the settings file: missing, unreadable, not JSON, or JSON holding a list, a string
\* in which the three setting names occur, or an object with or without the entries
SettingsFiles ==
    [ kind : { "missing", "unreadable", "corrupt", "list", "string_with_keys" },
      has_url : { FALSE }, has_key : { FALSE } ]
    \cup [ kind : { "object" }, has_url : BOOLEAN, has_key : BOOLEAN ]

\* a loaded dictionary with, or without, the two entries
Dict(has_url, has_key) == [ is_dict |-> TRUE, has_url |-> has_url, has_key |-> has_key ]
\* a loaded value that is not a dictionary
NOT_A_DICT == [ is_dict |-> FALSE, has_url |-> FALSE, has_key |-> FALSE ]

\* src/utils/storage.py: load_settings returns json.load(f) whatever it is, or {}
Storage_load_settings(f) ==
    CASE f.kind \in { "missing", "unreadable", "corrupt" } -> Dict(FALSE, FALSE)
      [] f.kind = "object" -> Dict(f.has_url, f.has_key)
      [] OTHER -> NOT_A_DICT

\* src/main.py: SettingsManager.load_settings; the defaults are filled in under a bare
\* except, so a list (item assignment fails) gives the defaults, while a string in
\* which every name occurs is returned as it is
SettingsManager_load_settings(f) ==
    CASE f.kind \in { "missing", "unreadable", "corrupt", "list" } -> Dict(FALSE, FALSE)
      [] f.kind = "object" -> Dict(f.has_url, f.has_key)
      [] OTHER -> NOT_A_DICT

\* settings.get(name, default) of the consumer; it raises AttributeError on a value
\* that is not a dictionary
Consume(kind, loaded, default_url) ==
    IF ~loaded.is_dict
    THEN [ file |-> kind, raised |-> TRUE, url |-> <<>>, key |-> "" ]
    ELSE [ file |-> kind, raised |-> FALSE,
           url |-> IF loaded.has_url THEN FILE_URL ELSE default_url,
           key |-> IF loaded.has_key THEN FILE_KEY ELSE "" ]

\* src/views/settings.py: SettingsView.__init__ fills its fields from load_settings()
View_settings_init(f) ==
    /\ app = "views"
    /\ settings = NoSettings
    /\ settings' = Consume(f.kind, Storage_load_settings(f), DEFAULT_BASE_URL)
    /\ UNCHANGED <<base_url, api_key, suppliedUrl, request, outcome, logger, call,
                   errorInfo>>

\* src/main.py: main() builds the SettingsManager and, from it, the APIClient
Main_startup(f) ==
    /\ app = "main"
    /\ settings = NoSettings
    /\ call = NoCall
    /\ settings' = Consume(f.kind, SettingsManager_load_settings(f), DEFAULT_API_URL)
    /\ IF settings'.raised
       THEN UNCHANGED <<base_url, api_key, suppliedUrl>>
       ELSE /\ suppliedUrl' = settings'.url
            /\ base_url' = ConstructedBaseUrl(app, settings'.url)
            /\ api_key' = settings'.key
    /\ UNCHANGED <<request, outcome, logger, call, errorInfo>>

-----------------------------------------------------------------------------
(* Normalisation of an arbitrary URL, applied once and then again *)

\* no settings are being saved and no status request is being built
InitSaveIdle ==
    /\ file = [ url |-> suppliedUrl, key |-> api_key ]
    /\ save = [ pc |-> "idle", w |-> 1, url |-> suppliedUrl, key |-> api_key,
                oldUrl |-> base_url, oldKey |-> api_key, oldFile |-> file ]
    /\ fetch = [ pc |-> "idle", url |-> <<>> ]

\* no task: status, apk_build_status ("NONE": absent), result_path, apk_path present
NoSnapshot == [ status |-> "none", apk |-> "NONE", path |-> "", apk_path |-> FALSE ]

\* no task is shown
NoCard ==
    [ view |-> "none", task |-> NoSnapshot, build |-> FALSE, retry |-> FALSE,
      clicked |-> NoSnapshot, posts |-> 0 ]

\* AppListView.__init__: limit = 10, offset = 0, total_tasks = 0, no status filter
InitList ==
    list = [ limit |-> DefaultLimit, offset |-> 0, total |-> 0, filter |-> "",
             op |-> "none", before |-> 0, failed_local |-> FALSE ]

InitUiIdle == card = NoCard /\ InitList

\* no assumption on the server is in force
\* no timer is pending, none has fired
NoChain == [ pending |-> [ t \in 0..MaxTasks |-> 0 ], fired |-> 0 ]
InitChainIdle == chain = NoChain
InitEnvIdle ==
    serverLeft = 0 /\ InitSaveIdle /\ InitUiIdle /\ InitChainIdle /\ logged = {}

InitNormIdle ==
    /\ normIn = <<>>
    /\ normOut = <<>>
    /\ normAgain = <<>>
    /\ normDone = 0

NormalizeOnce ==
    /\ normDone = 0
    /\ normOut' = ApiClient_normalize_base_url(normIn)
    /\ normDone' = 1
    /\ UNCHANGED <<normIn, normAgain>>

NormalizeAgain ==
    /\ normDone = 1
    /\ normAgain' = ApiClient_normalize_base_url(normOut)
    /\ normDone' = 2
    /\ UNCHANGED <<normIn, normOut>>

-----------------------------------------------------------------------------
(* The task poller: what a status request may return *)

Statuses == { "PENDING", "RUNNING", "COMPLETED", "FAILED", "CANCELLED", "Unknown" }
ApkStatuses == { "NONE", "BUILDING", "BUILDED", "BUILDFAILED" }

\* get_task_status raised
FetchError == [ err |-> TRUE, status |-> "ERR", apk |-> "NONE" ]
\* get_task_status returned a task snapshot ("NONE": no apk_build_status in it)
Responses ==
    { FetchError } \cup { [ err |-> FALSE, status |-> s, apk |-> a ] : s \in Statuses, a \in ApkStatuses }
\* the handler issued no status request
NoResponse == [ err |-> FALSE, status |-> "none", apk |-> "NONE" ]

Op(name, task_id, r, failed, notified) ==
    [ op |-> name, task |-> task_id, resp |-> r, failed |-> failed, notified |-> notified ]

InitPoller ==
    /\ current_task_id = 0
    /\ tasksCreated = 0
    /\ timers = 0
    /\ task_status_timer = "None"
    /\ generate_disabled = FALSE
    /\ progress_visible = FALSE
    /\ btnTask = 0
    /\ cancelShown = FALSE
    /\ fetches = 0
    /\ lastOp = Op("none", 0, NoResponse, FALSE, FALSE)
    /\ prevStatus = "none"
    /\ cancelledTask = 0
    /\ pollTask = 0

-----------------------------------------------------------------------------
(* src/views/app_generator.py: AppGeneratorView *)

View_task_complete_NoCompleted(status) == status \in { "FAILED", "CANCELLED" }

\* task_complete = task_status in ["COMPLETED", "FAILED", "CANCELLED"]
View_task_complete(status) == status \in { "COMPLETED", "FAILED", "CANCELLED" }

\* schedule_status_check: page.set_timer, taken as a one-shot timer; never cancels one.
\* tm is the number of timers pending when it is called, cur is self.current_task_id
View_schedule_status_check(cur, tm) == IF cur # 0 THEN tm + 1 ELSE tm

\* the except branch of check_task_status: "If auto-check failed, try again later"
View_on_fetch_error(cur, auto, tm) ==
    IF auto THEN View_schedule_status_check(cur, tm) ELSE tm

View_after_fetch_AlwaysReschedule(cur, r, tm) == View_schedule_status_check(cur, tm)

\* the end of the try branch of check_task_status: schedule another check or not
View_after_fetch(cur, r, tm) ==
    IF ~View_task_complete(r.status)
    THEN View_schedule_status_check(cur, tm)
    ELSE IF r.apk = "BUILDING" THEN View_schedule_status_check(cur, tm) ELSE tm

\* check_task_status(task_id, auto), get_task_status answering r;
\* name is the handler it runs in, tm the timers pending when it is called
View_check_task_status(name, task_id, auto, r, tm) ==
    /\ fetches < MaxFetches
    /\ fetches' = fetches + 1
    /\ prevStatus' = lastOp.resp.status
    /\ IF r.err
       THEN /\ timers' = View_on_fetch_error(current_task_id, auto, tm)
            \* the snack bar is shown "only if manual check"
            /\ lastOp' = Op(name, task_id, r, TRUE, ~auto)
            /\ UNCHANGED <<btnTask, cancelShown>>
       ELSE /\ timers' = View_after_fetch(current_task_id, r, tm)
            /\ btnTask' = task_id
            /\ cancelShown' = ~View_task_complete(r.status)
            /\ lastOp' = Op(name, task_id, r, FALSE, FALSE)
    /\ timers' <= MaxTimers
    /\ UNCHANGED <<current_task_id, tasksCreated, task_status_timer, generate_disabled,
                   progress_visible, pollTask>>

GenerateOutcomes == { "invalid", "error", "noid", "ok" }

\* generate_project(e): the form is invalid, the API raises, answers without a
\* task_id, or answers with the id of the task it created
View_generate_project(result) ==
    /\ app = "views"
    /\ prevStatus' = lastOp.resp.status
    /\ IF result = "ok"
       THEN /\ tasksCreated < MaxTasks
            /\ tasksCreated' = tasksCreated + 1
            /\ current_task_id' = tasksCreated + 1
            /\ btnTask' = tasksCreated + 1
            /\ cancelShown' = TRUE
            /\ timers' = View_schedule_status_check(tasksCreated + 1, timers)
            /\ timers' <= MaxTimers
            /\ lastOp' = Op("generate", tasksCreated + 1, NoResponse, FALSE, FALSE)
       ELSE /\ lastOp' = Op("generate", 0, NoResponse, TRUE, TRUE)
            /\ UNCHANGED <<tasksCreated, current_task_id, btnTask, cancelShown, timers>>
    /\ UNCHANGED <<task_status_timer, generate_disabled, progress_visible, fetches,
                   cancelledTask, pollTask>>

\* a timer set by schedule_status_check fires:
\* lambda _: self.check_task_status(self.current_task_id, auto=True)
View_timer_fire(r) ==
    /\ app = "views"
    /\ timers > 0
    /\ View_check_task_status("auto_check", current_task_id, TRUE, r, timers - 1)
    /\ UNCHANGED cancelledTask

\* the "Check Status" button: lambda e: self.check_task_status(task_id)
View_check_status_click(r) ==
    /\ app = "views"
    /\ btnTask # 0
    /\ View_check_task_status("manual_check", btnTask, FALSE, r, timers)
    /\ UNCHANGED cancelledTask

\* the "Cancel Task" button: cancel_task(task_id); the API call succeeds or raises
View_cancel_task(succeeds, r) ==
    /\ app = "views"
    /\ btnTask # 0
    /\ cancelShown
    /\ IF succeeds
       THEN /\ cancelledTask' = btnTask
            /\ View_check_task_status("cancel", btnTask, FALSE, r, timers)
       ELSE /\ prevStatus' = lastOp.resp.status
            /\ lastOp' = Op("cancel", btnTask, NoResponse, TRUE, TRUE)
            /\ UNCHANGED <<current_task_id, tasksCreated, timers, task_status_timer,
                           generate_disabled, progress_visible, btnTask, cancelShown,
                           fetches, cancelledTask, pollTask>>

-----------------------------------------------------------------------------
(* src/main.py: start_task_polling and on_generate_click *)

\* elif status in ["PENDING", "RUNNING"]: schedule the next poll
Main_in_progress(status) == status \in { "PENDING", "RUNNING" }

\* the branches of poll_task_status that stop polling and unlock the form:
\* status == "COMPLETED", status == "FAILED", and the except branch
Main_stops(r) == r.err \/ r.status \in { "COMPLETED", "FAILED" }

\* if task_status_timer: task_status_timer.cancel() -- a pending timer is removed,
\* a timer that has fired is not affected
Main_cancel_timer(ref, tm) == IF ref = "pending" THEN tm - 1 ELSE tm

\* poll_task_status() for task_id, get_task_status answering r; tm and ref are the
\* pending timers and task_status_timer when it is called, disabled is generate_button.disabled
Main_poll_task_status(name, task_id, r, tm, ref, disabled) ==
    /\ fetches < MaxFetches
    /\ fetches' = fetches + 1
    /\ prevStatus' = lastOp.resp.status
    /\ pollTask' = task_id
    /\ IF Main_stops(r)
       THEN /\ progress_visible' = FALSE
            /\ generate_disabled' = FALSE
            /\ timers' = Main_cancel_timer(ref, tm)
            /\ task_status_timer' = "None"
       ELSE IF Main_in_progress(r.status)
       THEN /\ progress_visible' = TRUE
            /\ generate_disabled' = disabled
            /\ timers' = tm + 1
            /\ task_status_timer' = "pending"
       ELSE /\ progress_visible' = FALSE
            /\ generate_disabled' = disabled
            /\ timers' = tm
            /\ task_status_timer' = ref
    /\ timers' <= MaxTimers
    \* the except branch writes the failure into generate_status_text
    /\ lastOp' = Op(name, task_id, r, r.err, r.err)
    /\ UNCHANGED <<btnTask, cancelShown, cancelledTask>>

\* on_generate_click(e): the prompt is empty ("invalid"), create_task raises ("error"),
\* answers without a task_id ("noid") or with the id of the new task ("ok")
Main_on_generate_click(result, r) ==
    /\ app = "main"
    /\ ~generate_disabled
    /\ IF result = "invalid" \/ api_key = "" \/ result = "error"
       THEN /\ prevStatus' = lastOp.resp.status
            /\ lastOp' = Op("generate", 0, NoResponse, TRUE, TRUE)
            /\ generate_disabled' = FALSE
            /\ progress_visible' = (IF result = "invalid" \/ api_key = ""
                                    THEN progress_visible ELSE FALSE)
            /\ UNCHANGED <<current_task_id, tasksCreated, timers, task_status_timer,
                           btnTask, cancelShown, fetches, cancelledTask, pollTask>>
       ELSE /\ IF result = "ok"
               THEN /\ tasksCreated < MaxTasks
                    /\ tasksCreated' = tasksCreated + 1
                    /\ current_task_id' = tasksCreated + 1
               ELSE /\ tasksCreated' = tasksCreated
                    /\ current_task_id' = 0
            \* start_task_polling(current_task_id): the first poll runs at once
            /\ Main_poll_task_status("generate", current_task_id', r, timers,
                                     task_status_timer, TRUE)

\* the threading.Timer started by poll_task_status fires and runs it again
Main_timer_fire(r) ==
    /\ app = "main"
    /\ timers > 0
    /\ Main_poll_task_status("auto_check", pollTask, r, timers - 1,
                             IF task_status_timer = "pending" THEN "fired"
                                                              ELSE task_status_timer,
                             generate_disabled)
    /\ UNCHANGED <<current_task_id, tasksCreated>>

-----------------------------------------------------------------------------
(* The task views: the APK actions they offer and what a click on them does *)

\* a task as the server reports it, so far as the views look at it: result_path is
\* "" (none), "odd" (not <dir>/<name>_<org>_<timestamp>) or "parsable"
ResultPaths == { "", "odd", "parsable" }
Snapshots ==
    [ status : Statuses, apk : ApkStatuses, path : ResultPaths, apk_path : BOOLEAN ]

\* result_path.split('/')[-1].split('_'): the project name, organization and timestamp
\* of a path of the expected form, the defaults otherwise
ParsedProjectName(path) == IF path = "parsable" THEN "App" ELSE "Unknown"
ParsedOrganization(path) == IF path = "parsable" THEN "acme" ELSE "DefaultOrganization"
ParsedTimestamp(path) == IF path = "parsable" THEN "20250101" ELSE ""

\* src/views/app_generator.py, check_task_status: the button row
Generator_shows_build(t) == t.status = "COMPLETED" /\ t.apk = "NONE"
Generator_shows_retry(t) == t.apk = "BUILDFAILED"

\* src/views/app_list.py, create_task_card: one button serves both
List_shows_build(t) ==
    /\ t.status = "COMPLETED"
    /\ ParsedProjectName(t.path) # "Unknown"
    /\ t.path # ""
    /\ t.apk = "NONE" \/ t.apk = "BUILDFAILED"

\* src/main.py, create_app_card
Main_shows_build(t) == t.status = "COMPLETED" /\ ~t.apk_path

\* a view draws the task t
Render(view, t) ==
    [ view |-> view, task |-> t,
      build |-> CASE view = "generator" -> Generator_shows_build(t)
                  [] view = "list" -> List_shows_build(t)
                  [] OTHER -> Main_shows_build(t),
      retry |-> view = "generator" /\ Generator_shows_retry(t),
      clicked |-> NoSnapshot, posts |-> 0 ]

\* check_task_status / create_task_card (views), create_app_card (src/main.py)
View_render(view, t) ==
    /\ IF app = "main" THEN view = "main" ELSE view \in { "generator", "list" }
    /\ card' = Render(view, t)
    /\ UNCHANGED <<clientVars, list>>

\* def build_apk(self, project_name, organization=None, timestamp=None)
ApiClient_build_apk_params == { "project_name", "organization", "timestamp" }
\* self.api_client.build_apk(project_name=..., organization=..., timestamp=..., task_id=...)
View_build_apk_kwargs == { "project_name", "organization", "timestamp", "task_id" }

\* a call with keyword arguments: a keyword the function does not take raises
\* TypeError before its body runs
PyCall(kwargs, params, res) ==
    IF kwargs \subseteq params THEN res ELSE Raised("TypeError")

\* the project name the handler of the view passes on, "" when it raises ValueError
\* itself: the generator view on an empty result_path, the list view on "Unknown"
View_build_apk_project(view, t) ==
    IF view = "generator"
    THEN (IF t.path = "" THEN "" ELSE ParsedProjectName(t.path))
    ELSE (IF ParsedProjectName(t.path) = "Unknown" THEN "" ELSE ParsedProjectName(t.path))

\* a click on Build APK / Retry APK Build: AppGeneratorView.build_apk(task_id, result),
\* AppListView.build_apk(pn, org, ts, tid); the server answers a, its result says
\* success or not, and after a success the view fetches and draws the task (t2) again
View_build_apk_click(a, success, t2) ==
    /\ app = "views"
    /\ card.view \in { "generator", "list" }
    /\ card.build \/ card.retry
    /\ ~settings.raised
    /\ LET t == card.task
           pn == View_build_apk_project(card.view, t)
           c == [ NoCall EXCEPT !.op = "build_apk", !.project_name = pn,
                                !.organization = ParsedOrganization(t.path),
                                !.timestamp = ParsedTimestamp(t.path),
                                !.code = a.code, !.has_detail = a.has_detail ]
           res == IF pn = ""
                  THEN Raised("ValueError")
                  ELSE PyCall(View_build_apk_kwargs, ApiClient_build_apk_params,
                              ApiClient_build_apk(c, api_key, base_url))
           n == IF res.request = NoRequest THEN 0 ELSE 1
       IN  /\ outcome' = res.outcome
           /\ errorInfo' = res.info
           /\ call' = IF res.request = NoRequest
                      THEN [ c EXCEPT !.code = 0, !.has_detail = FALSE ]
                      ELSE c
           /\ IF res.outcome = "ok" /\ success
              THEN /\ request' = IF card.view = "generator"
                                 THEN Req("GET", "status", 1, base_url, ABSENT, ABSENT, ABSENT)
                                 ELSE Req("GET", "tasks", 0, base_url, ABSENT, ABSENT, ABSENT)
                   /\ card' = [ Render(card.view, t2) EXCEPT !.clicked = t, !.posts = n ]
              ELSE /\ request' = res.request
                   /\ card' = [ card EXCEPT !.clicked = t, !.posts = n ]
    /\ UNCHANGED <<base_url, api_key, suppliedUrl, logger, settings, list>>

\* src/main.py: on_click calls build_apk_for_project(name), a name defined nowhere
Main_build_apk_click ==
    /\ app = "main"
    /\ card.view = "main"
    /\ card.build
    /\ request' = NoRequest
    /\ outcome' = "NameError"
    /\ errorInfo' = NoInfo
    /\ call' = [ NoCall EXCEPT !.op = "build_apk" ]
    /\ card' = [ card EXCEPT !.clicked = card.task, !.posts = 0 ]
    /\ UNCHANGED <<base_url, api_key, suppliedUrl, logger, settings, list>>

-----------------------------------------------------------------------------
(* src/views/app_list.py: the pages of the task list *)

\* result.get("total", 0): what the server reports
Totals == { 0, 1 } \cup { p * DefaultLimit + d : p \in 1..MaxPages, d \in { 0, 1 } }
\* the dropdown's values; "All" is kept as None, "" here
StatusFilters == { "All", "COMPLETED", "FAILED" }
\* the answers the list tells apart: the request succeeded or it raised
ListAnswers == { a \in Answers : a.code \in { 200, 500 } }

List_prev_enabled_Always(l) == TRUE

\* prev_page: if self.offset >= self.limit
List_prev_enabled(l) == l.offset >= l.limit
\* next_page: if self.offset + self.limit < self.total_tasks
List_next_enabled(l) == l.offset + l.limit < l.total

\* fetch_tasks() of handler name on the list l (offset and filter already set by the
\* handler): list_tasks is called with limit and offset, the server answers a and
\* reports tot tasks; on an exception the list keeps what it had
List_fetch_tasks(name, l, a, tot) ==
    LET c == [ NoCall EXCEPT !.op = "list", !.limit = l.limit, !.offset = l.offset,
                             !.code = a.code, !.has_detail = a.has_detail ]
        res == ApiClient_list_tasks(c, api_key, base_url)
    IN  /\ request' = res.request
        /\ outcome' = res.outcome
        /\ errorInfo' = res.info
        /\ call' = IF res.request = NoRequest
                   THEN [ c EXCEPT !.code = 0, !.has_detail = FALSE ]
                   ELSE c
        /\ list' = [ l EXCEPT !.total = IF res.outcome = "ok" THEN tot ELSE @,
                              !.op = name,
                              !.before = list.offset,
                              !.failed_local = (res.outcome = "ValueError") ]
        /\ UNCHANGED <<base_url, api_key, suppliedUrl, logger, settings, card>>

\* the refresh button: fetch_tasks
List_refresh(a, tot) ==
    /\ app = "views"
    /\ List_fetch_tasks("refresh", list, a, tot)

List_change_status_filter(f, a, tot) ==
    /\ app = "views"
    /\ List_fetch_tasks("filter",
                        [ list EXCEPT !.filter = IF f = "All" THEN "" ELSE f,
                                      !.offset = 0 ],
                        a, tot)

List_prev_page(a, tot) ==
    /\ app = "views"
    /\ List_prev_enabled(list)
    /\ List_fetch_tasks("prev", [ list EXCEPT !.offset = @ - list.limit ], a, tot)

List_next_page(a, tot) ==
    /\ app = "views"
    /\ List_next_enabled(list)
    /\ List_fetch_tasks("next", [ list EXCEPT !.offset = @ + list.limit ], a, tot)

\* cancel_task(task_id) / delete_task(task_id) of the list: the API call (answer a1)
\* and, when its result reports the success, fetch_tasks
List_cancel_or_delete(name, done, a1, a, tot) ==
    /\ app = "views"
    /\ name \in { "cancel", "delete" }
    /\ LET c == [ NoCall EXCEPT !.op = name, !.task_id = 1,
                                !.code = a1.code, !.has_detail = a1.has_detail ]
           res == IF name = "cancel"
                  THEN ApiClient_cancel_task(c, api_key, base_url)
                  ELSE ApiClient_delete_task_result(c, api_key, base_url)
       IN  IF res.outcome = "ok" /\ done
           THEN List_fetch_tasks(name, list, a, tot)
           ELSE /\ request' = res.request
                /\ outcome' = res.outcome
                /\ errorInfo' = res.info
                /\ call' = c
                /\ list' = [ list EXCEPT !.op = name, !.before = list.offset,
                                         !.failed_local = FALSE ]
                /\ UNCHANGED <<base_url, api_key, suppliedUrl, logger, settings, card>>

-----------------------------------------------------------------------------
(* Saving the settings, statement by statement, while a status request is built *)

\* what the user may have typed into the URL field; <<>> is the empty field
SaveUrls == { <<>>, HOST, DEFAULT_BASE_URL, DEFAULT_API_URL }

MainClient_set_base_url_writes_InPlace(u) == <<u, MainClient_normalize(u)>>

\* the values set_base_url assigns to self.base_url, in order: both clients compute
\* the normalised URL in a local and assign it once
MainClient_set_base_url_writes(u) == <<MainClient_normalize(u)>>

ApiClient_set_base_url_writes(u) == <<ApiClient_normalize_base_url(u)>>

Client_set_base_url_writes(a, u) ==
    IF a = "views" THEN ApiClient_set_base_url_writes(u)
                   ELSE MainClient_set_base_url_writes(u)

\* the handler is not running
SaveAtRest == save.pc \in { "idle", "rejected", "done", "failed" }

\* the Save button: save_settings_click (src/main.py) rejects an empty URL or key and
\* goes on to the client; SettingsView.save_settings writes the file first
Save_begin(u, k) ==
    /\ SaveAtRest
    /\ fetch.pc = "idle"
    /\ IF app = "main" /\ (u = <<>> \/ k = "")
       THEN save' = [ save EXCEPT !.pc = "rejected" ]
       ELSE save' = [ pc |-> IF app = "main" THEN "set_url" ELSE "write_file",
                      w |-> 1, url |-> u, key |-> k,
                      oldUrl |-> base_url, oldKey |-> api_key, oldFile |-> file ]
    /\ request' = NoRequest
    /\ call' = [ NoCall EXCEPT !.op = "save_settings" ]
    /\ outcome' = "none"
    /\ errorInfo' = NoInfo
    /\ UNCHANGED <<base_url, api_key, suppliedUrl, logger, settings, file, fetch>>

\* save_settings(settings) of src/utils/storage.py: the file is written, or it is not
\* and False is returned
Save_write_file(ok) ==
    /\ save.pc = "write_file"
    /\ IF ok THEN /\ file' = [ url |-> save.url, key |-> save.key ]
                  /\ save' = [ save EXCEPT !.pc = "set_url" ]
             ELSE /\ save' = [ save EXCEPT !.pc = "failed" ]
                  /\ UNCHANGED file
    /\ UNCHANGED <<clientVars, fetch>>

\* api_client.set_base_url(url): one assignment to self.base_url
Save_set_base_url ==
    /\ save.pc = "set_url"
    /\ LET writes == Client_set_base_url_writes(app, save.url)
       IN  /\ base_url' = writes[save.w]
           /\ save' = IF save.w = Len(writes) THEN [ save EXCEPT !.pc = "set_key", !.w = 1 ]
                                              ELSE [ save EXCEPT !.w = save.w + 1 ]
    /\ suppliedUrl' = save.url
    /\ UNCHANGED <<api_key, request, outcome, logger, call, errorInfo, settings, file, fetch>>

\* api_client.set_api_key(key); the handler of the view ends here
Save_set_api_key ==
    /\ save.pc = "set_key"
    /\ api_key' = save.key
    /\ save' = [ save EXCEPT !.pc = IF app = "main" THEN "write_url" ELSE "done" ]
    /\ UNCHANGED <<base_url, suppliedUrl, request, outcome, logger, call, errorInfo,
                   settings, file, fetch>>

\* src/main.py: settings_manager.set_setting("api_url", url) and then
\* set_setting("api_key", key); each rewrites the file and may raise, which ends the
\* handler in its except branch
Save_set_setting(ok) ==
    /\ save.pc \in { "write_url", "write_key" }
    /\ IF ~ok
       THEN /\ save' = [ save EXCEPT !.pc = "failed" ]
            /\ UNCHANGED file
       ELSE IF save.pc = "write_url"
       THEN /\ file' = [ file EXCEPT !.url = save.url ]
            /\ save' = [ save EXCEPT !.pc = "write_key" ]
       ELSE /\ file' = [ file EXCEPT !.key = save.key ]
            /\ save' = [ save EXCEPT !.pc = "done" ]
    /\ UNCHANGED <<clientVars, fetch>>

\* the poll timer's get_task_status: f"{self.base_url}status/{task_id}" is evaluated
Fetch_read_base_url ==
    /\ fetch.pc = "idle"
    /\ fetch' = [ pc |-> "url_read", url |-> base_url ]
    /\ UNCHANGED <<clientVars, file, save>>

\* ... then params=self._get_auth_data() (src/main.py only), and the request is sent
Fetch_send ==
    /\ fetch.pc = "url_read"
    /\ fetch' = [ pc |-> "idle", url |-> <<>> ]
    /\ request' = Req("GET", "status", 1, fetch.url, ABSENT, ABSENT,
                      IF app = "main" THEN api_key ELSE ABSENT)
    /\ call' = [ NoCall EXCEPT !.op = "status", !.task_id = 1, !.code = 200 ]
    /\ outcome' = "ok"
    /\ errorInfo' = NoInfo
    /\ UNCHANGED <<base_url, api_key, suppliedUrl, logger, settings, file, save>>

-----------------------------------------------------------------------------
(* Specifications *)

\* the poller of either application, with every user action
InitPoll ==
    /\ app \in Apps
    /\ api_key \in Keys
    /\ InitClientDefault
    /\ InitPoller
    /\ InitNormIdle
    /\ InitEnvIdle

NextPoll ==
    \/ \E g \in GenerateOutcomes : View_generate_project(g) /\ UNCHANGED <<app, clientVars, normVars, envVars>>
    \/ \E r \in Responses : View_timer_fire(r) /\ UNCHANGED <<app, clientVars, normVars, envVars>>
    \/ \E r \in Responses : View_check_status_click(r) /\ UNCHANGED <<app, clientVars, normVars, envVars>>
    \/ \E ok \in BOOLEAN, r \in Responses :
          View_cancel_task(ok, r) /\ UNCHANGED <<app, clientVars, normVars, envVars>>
    \/ \E g \in GenerateOutcomes, r \in Responses :
          Main_on_generate_click(g, r) /\ UNCHANGED <<app, clientVars, normVars, envVars>>
    \/ \E r \in Responses : Main_timer_fire(r) /\ UNCHANGED <<app, clientVars, normVars, envVars>>

SpecPoll == InitPoll /\ [][NextPoll]_vars

\* one poller left to itself: the user generates until a poll has started (a task was
\* created or a status request issued), then only the timer acts
AutoStart ==
    /\ tasksCreated = 0
    /\ fetches = 0
    /\ \/ \E g \in GenerateOutcomes : View_generate_project(g)
       \/ \E g \in GenerateOutcomes, r \in Responses : Main_on_generate_click(g, r)
    /\ UNCHANGED <<app, clientVars, normVars, envVars>>

NextAuto ==
    \/ AutoStart
    \/ \E r \in Responses : View_timer_fire(r) /\ UNCHANGED <<app, clientVars, normVars, envVars>>
    \/ \E r \in Responses : Main_timer_fire(r) /\ UNCHANGED <<app, clientVars, normVars, envVars>>

SpecAuto == InitPoll /\ [][NextAuto]_vars

\* the poll chains: the user generates projects, the timers fire; chain keeps, for
\* every pending timer, the task that was generated when its chain was started
ChainAdd(p, t) == [ p EXCEPT ![t] = @ + 1 ]
ChainDrop(p, t) == [ p EXCEPT ![t] = @ - 1 ]

\* generate_project / on_generate_click: a timer that is pending afterwards and was
\* not before starts the chain of the task just generated
ChainGenerate ==
    /\ \/ \E g \in GenerateOutcomes : View_generate_project(g)
       \/ \E g \in GenerateOutcomes, r \in Responses : Main_on_generate_click(g, r)
    /\ chain' = IF timers' > timers
                THEN [ chain EXCEPT !.pending = ChainAdd(@, current_task_id') ]
                ELSE chain
    /\ UNCHANGED <<app, clientVars, normVars, serverLeft, saveVars, uiVars, logged>>

\* one of the pending timers fires; the check it runs sets the next timer of the
\* same chain or none
ChainTimerFire ==
    /\ \E x \in 0..MaxTasks :
          /\ chain.pending[x] > 0
          /\ \E r \in Responses : View_timer_fire(r) \/ Main_timer_fire(r)
          /\ chain' = [ pending |-> IF timers' = timers
                                    THEN chain.pending
                                    ELSE ChainDrop(chain.pending, x),
                        fired |-> x ]
    /\ UNCHANGED <<app, clientVars, normVars, serverLeft, saveVars, uiVars, logged>>

NextChain ==
    \/ ChainGenerate
    \/ ChainTimerFire

SpecChain == InitPoll /\ [][NextChain]_vars

\* one poller left to itself, on a task that reaches a terminal status: serverLeft
\* bounds the status requests that fail or that find the task unfinished, so that
\* every request after them succeeds and finds the task finished
FinishedSnapshot(r) ==
    ~r.err /\ r.status \in { "COMPLETED", "FAILED", "CANCELLED" } /\ r.apk # "BUILDING"

ServerAnswers(r) ==
    /\ FinishedSnapshot(r) \/ serverLeft > 0
    /\ serverLeft' = IF FinishedSnapshot(r) THEN serverLeft ELSE serverLeft - 1

InitLive ==
    /\ app \in Apps
    /\ api_key \in Keys
    /\ InitClientDefault
    /\ InitPoller
    /\ InitNormIdle
    /\ InitSaveIdle
    /\ InitUiIdle
    /\ InitChainIdle
    /\ logged = {}
    /\ serverLeft \in 0..(MaxFetches - 2)

LiveStart ==
    /\ tasksCreated = 0
    /\ fetches = 0
    /\ \/ (\E g \in GenerateOutcomes : View_generate_project(g)) /\ UNCHANGED serverLeft
       \/ \E g \in GenerateOutcomes, r \in Responses :
             ServerAnswers(r) /\ Main_on_generate_click(g, r)
    /\ UNCHANGED <<app, clientVars, normVars, saveVars, uiVars, chain, logged>>

\* the timer set by schedule_status_check / threading.Timer fires
LiveTimerFire ==
    /\ \E r \in Responses :
          ServerAnswers(r) /\ (View_timer_fire(r) \/ Main_timer_fire(r))
    /\ UNCHANGED <<app, clientVars, normVars, saveVars, uiVars, chain, logged>>

NextLive ==
    \/ LiveStart
    \/ LiveTimerFire

\* a timer that is set fires
SpecLive == InitLive /\ [][NextLive]_vars /\ WF_vars(LiveTimerFire)

\* the save-settings handler and a status request, interleaved statement by statement
InitRace ==
    /\ app \in Apps
    /\ api_key \in Keys
    /\ InitClientDefault
    /\ InitPoller
    /\ InitNormIdle
    /\ InitEnvIdle

NextRace ==
    \/ \E u \in SaveUrls, k \in Keys : Save_begin(u, k) /\ UNCHANGED <<app, pollVars, normVars, serverLeft, uiVars, chain, logged>>
    \/ \E ok \in BOOLEAN : Save_write_file(ok) /\ UNCHANGED <<app, pollVars, normVars, serverLeft, uiVars, chain, logged>>
    \/ Save_set_base_url /\ UNCHANGED <<app, pollVars, normVars, serverLeft, uiVars, chain, logged>>
    \/ Save_set_api_key /\ UNCHANGED <<app, pollVars, normVars, serverLeft, uiVars, chain, logged>>
    \/ \E ok \in BOOLEAN : Save_set_setting(ok) /\ UNCHANGED <<app, pollVars, normVars, serverLeft, uiVars, chain, logged>>
    \/ Fetch_read_base_url /\ UNCHANGED <<app, pollVars, normVars, serverLeft, uiVars, chain, logged>>
    \/ Fetch_send /\ UNCHANGED <<app, pollVars, normVars, serverLeft, uiVars, chain, logged>>

SpecRace == InitRace /\ [][NextRace]_vars

\* the task views: a task is drawn, an APK action is clicked
InitCards ==
    /\ app \in Apps
    /\ api_key \in Keys
    /\ InitClientDefault
    /\ InitPoller
    /\ InitNormIdle
    /\ InitEnvIdle

NextCards ==
    \/ \E v \in { "generator", "list", "main" }, t \in Snapshots :
          View_render(v, t) /\ UNCHANGED <<app, pollVars, normVars, serverLeft, saveVars, chain, logged>>
    \/ \E a \in Answers, ok \in BOOLEAN, t2 \in Snapshots :
          View_build_apk_click(a, ok, t2)
              /\ UNCHANGED <<app, pollVars, normVars, serverLeft, saveVars, chain, logged>>
    \/ Main_build_apk_click /\ UNCHANGED <<app, pollVars, normVars, serverLeft, saveVars, chain, logged>>

SpecCards == InitCards /\ [][NextCards]_vars

\* the task list: pages, filter, refresh, cancel and delete
NextList ==
    \/ \E a \in ListAnswers, tot \in Totals :
          List_refresh(a, tot) /\ UNCHANGED <<app, pollVars, normVars, serverLeft, saveVars, chain, logged>>
    \/ \E f \in StatusFilters, a \in ListAnswers, tot \in Totals :
          List_change_status_filter(f, a, tot)
              /\ UNCHANGED <<app, pollVars, normVars, serverLeft, saveVars, chain, logged>>
    \/ \E a \in ListAnswers, tot \in Totals :
          List_prev_page(a, tot) /\ UNCHANGED <<app, pollVars, normVars, serverLeft, saveVars, chain, logged>>
    \/ \E a \in ListAnswers, tot \in Totals :
          List_next_page(a, tot) /\ UNCHANGED <<app, pollVars, normVars, serverLeft, saveVars, chain, logged>>
    \/ \E n \in { "cancel", "delete" }, done \in BOOLEAN, a1 \in ListAnswers, a \in ListAnswers,
          tot \in Totals :
          List_cancel_or_delete(n, done, a1, a, tot)
              /\ UNCHANGED <<app, pollVars, normVars, serverLeft, saveVars, chain, logged>>

InitListView == InitCards /\ app = "views"

SpecList == InitListView /\ [][NextList]_vars

\* the API client of either application
InitClient ==
    /\ app \in Apps
    /\ InitClientAny
    /\ InitPoller
    /\ InitNormIdle
    /\ InitEnvIdle

NextClient ==
    \/ \E u \in ClientUrls : Client_set_base_url(u) /\ UNCHANGED <<app, pollVars, normVars, envVars>>
    \/ \E k \in Keys : Client_set_api_key(k) /\ UNCHANGED <<app, pollVars, normVars, envVars>>
    \/ \E t \in TaskIdInputs, c \in ResponseCodes :
          ApiClient_delete_task(t, c) /\ UNCHANGED <<app, pollVars, normVars, envVars>>
    \/ \E t \in TaskIdInputs, c \in ResponseCodes :
          MainClient_delete_task(t, c) /\ UNCHANGED <<app, pollVars, normVars, envVars>>

SpecClient == InitClient /\ [][NextClient]_vars

\* the operations of the client of either application, constructed with or without a
\* logger
InitOps ==
    /\ app \in Apps
    /\ api_key \in Keys
    /\ logger \in BOOLEAN
    /\ suppliedUrl = (IF app = "views" THEN DEFAULT_BASE_URL ELSE DEFAULT_API_URL)
    /\ base_url = ConstructedBaseUrl(app, suppliedUrl)
    /\ InitClientIdle
    /\ InitPoller
    /\ InitNormIdle
    /\ InitEnvIdle

NextOps ==
    \/ \E k \in Keys : Client_set_api_key(k) /\ UNCHANGED <<app, pollVars, normVars, envVars>>
    \/ Client_generate_project /\ UNCHANGED <<app, pollVars, normVars, envVars>>
    \/ Client_get_task_status /\ UNCHANGED <<app, pollVars, normVars, envVars>>
    \/ Client_list_tasks /\ UNCHANGED <<app, pollVars, normVars, envVars>>
    \/ Client_cancel_task /\ UNCHANGED <<app, pollVars, normVars, envVars>>
    \/ \E t \in TaskIdInputs, c \in ResponseCodes :
          ApiClient_delete_task(t, c) /\ UNCHANGED <<app, pollVars, normVars, envVars>>
    \/ \E t \in TaskIdInputs, c \in ResponseCodes :
          MainClient_delete_task(t, c) /\ UNCHANGED <<app, pollVars, normVars, envVars>>
    \/ Client_build_apk /\ UNCHANGED <<app, pollVars, normVars, envVars>>
    \/ ApiClient_health_checks /\ UNCHANGED <<app, pollVars, normVars, envVars>>

SpecOps == InitOps /\ [][NextOps]_vars

\* the same operations, with the messages each passes to the logger
NextLog ==
    \/ \E k \in Keys : Client_set_api_key(k) /\ Client_logs
          /\ UNCHANGED <<app, pollVars, normVars, serverLeft, saveVars, uiVars, chain>>
    \/ Client_generate_project /\ Client_logs
          /\ UNCHANGED <<app, pollVars, normVars, serverLeft, saveVars, uiVars, chain>>
    \/ Client_get_task_status /\ Client_logs
          /\ UNCHANGED <<app, pollVars, normVars, serverLeft, saveVars, uiVars, chain>>
    \/ Client_list_tasks /\ Client_logs
          /\ UNCHANGED <<app, pollVars, normVars, serverLeft, saveVars, uiVars, chain>>
    \/ Client_cancel_task /\ Client_logs
          /\ UNCHANGED <<app, pollVars, normVars, serverLeft, saveVars, uiVars, chain>>
    \/ \E t \in TaskIdInputs, c \in ResponseCodes :
          ApiClient_delete_task(t, c) /\ Client_logs
              /\ UNCHANGED <<app, pollVars, normVars, serverLeft, saveVars, uiVars, chain>>
    \/ \E t \in TaskIdInputs, c \in ResponseCodes :
          MainClient_delete_task(t, c) /\ Client_logs
              /\ UNCHANGED <<app, pollVars, normVars, serverLeft, saveVars, uiVars, chain>>
    \/ Client_build_apk /\ Client_logs
          /\ UNCHANGED <<app, pollVars, normVars, serverLeft, saveVars, uiVars, chain>>
    \/ ApiClient_health_checks /\ Client_logs
          /\ UNCHANGED <<app, pollVars, normVars, serverLeft, saveVars, uiVars, chain>>

SpecLog == InitOps /\ [][NextLog]_vars

\* start-up on whatever the settings file holds, and the settings the user saves later
InitStart ==
    /\ app \in Apps
    /\ api_key = ""
    /\ InitClientDefault
    /\ InitPoller
    /\ InitNormIdle
    /\ InitEnvIdle

NextStart ==
    \/ \E f \in SettingsFiles : View_settings_init(f) /\ UNCHANGED <<app, pollVars, normVars, envVars>>
    \/ \E f \in SettingsFiles : Main_startup(f) /\ UNCHANGED <<app, pollVars, normVars, envVars>>
    \/ \E u \in ClientUrls : Client_set_base_url(u) /\ UNCHANGED <<app, pollVars, normVars, envVars>>
    \/ \E k \in Keys : Client_set_api_key(k) /\ UNCHANGED <<app, pollVars, normVars, envVars>>

SpecStart == InitStart /\ [][NextStart]_vars

\* _normalize_base_url on every URL of UrlInputs
InitNorm ==
    /\ app = "views"
    /\ api_key = ""
    /\ InitClientDefault
    /\ InitPoller
    /\ normIn \in UrlInputs
    /\ normOut = <<>>
    /\ normAgain = <<>>
    /\ normDone = 0
    /\ InitEnvIdle

NextNorm ==
    \/ NormalizeOnce /\ UNCHANGED <<app, clientVars, pollVars, envVars>>
    \/ NormalizeAgain /\ UNCHANGED <<app, clientVars, pollVars, envVars>>

SpecNorm == InitNorm /\ [][NextNorm]_vars

Init == InitPoll
Next == NextPoll
Spec == SpecPoll

-----------------------------------------------------------------------------
(* Properties *)

\* main.py never holds a Timer it lost track of: the pending timers are exactly the
\* one task_status_timer refers to (Main_timer_fire relies on it)
Main_TimerRefConsistent ==
    app = "main" => timers = (IF task_status_timer = "pending" THEN 1 ELSE 0)

TerminalStatuses == { "COMPLETED", "FAILED", "CANCELLED" }

\* the last handler fetched a task snapshot
FetchedSnapshot == lastOp.resp.status \in Statuses

\* C1: at most one scheduled status fetch is pending at any time, after any sequence
\* of generate, timer fire, manual "Check Status" and "Cancel Task" actions.
C1_OnePollTimer == timers <= 1

\* C2: once the user has cancelled the task being polled, no scheduled fetch fires
\* any more: no step issues an automatic status request for it.
C2_NoFetchAfterCancel ==
    [][ (cancelledTask # 0 /\ cancelledTask = current_task_id)
            => ~(lastOp'.op = "auto_check" /\ fetches' = fetches + 1) ]_vars

\* C3: after a status fetch that raised, automatic or manual, the poller has
\* stopped: no status fetch is scheduled.
C3_StopOnFetchError == lastOp.resp.err => timers = 0

\* C4: every handler in which an operation failed has shown an error message.
C4_FailureIsShown == lastOp.failed => lastOp.notified

\* the mocked server of C5 has answered RUNNING to the first status request
ScenarioRunning ==
    /\ fetches = 1
    /\ lastOp.resp = [ err |-> FALSE, status |-> "RUNNING", apk |-> "NONE" ]

\* ... and COMPLETED to the second
ScenarioRunningThenCompleted ==
    /\ fetches = 2
    /\ prevStatus = "RUNNING"
    /\ lastOp.resp = [ err |-> FALSE, status |-> "COMPLETED", apk |-> "NONE" ]

\* C5: a poller left to itself, on a server that answers RUNNING and then COMPLETED,
\* has one fetch scheduled after the first answer, none after the second, and issues
\* no third status request.
C5_TwoFetchesThenStopped ==
    /\ [](ScenarioRunning => timers = 1)
    /\ [](ScenarioRunningThenCompleted => timers = 0)
    /\ [][ScenarioRunningThenCompleted => fetches' = fetches]_vars

C5_Witness == ScenarioRunningThenCompleted /\ timers = 0 /\ app = "views"

\* C6: after a successful fetch showing a terminal status with apk_build_status
\* BUILDING, polling continues: another fetch is scheduled.
C6_PollsWhileApkBuilding ==
    (FetchedSnapshot /\ lastOp.resp.status \in TerminalStatuses /\ lastOp.resp.apk = "BUILDING")
        => timers >= 1

C8_NormalizeIdempotent == normDone = 2 => normAgain = normOut

C8_Witness ==
    /\ normDone = 2
    /\ ~EndsWith(normIn, SLASH)
    /\ ~Contains(normIn, API_PREFIX)
    /\ normOut # normIn
    /\ normAgain = normOut

C10_BaseUrlNormalized ==
    /\ base_url = (IF app = "views" THEN ApiClient_normalize_base_url(suppliedUrl)
                                    ELSE MainClient_normalize(suppliedUrl))
    /\ EndsWith(base_url, SLASH)

-----------------------------------------------------------------------------
(* The client's operations: argument checks, error kinds, logging *)

\* the client operation of the current state sent a request
RequestSent == call.op \in ClientOps /\ request # NoRequest
\* it raised the invalid-argument error and sent nothing
FailedLocally == outcome = "ValueError" /\ request = NoRequest

\* C11: generate_project of src/api_client.py rejects a task description shorter than
\* 10 or longer than 2000 characters, and an empty project name, with the
\* invalid-argument error and without a request; a description of 10 to 2000
\* characters with a name passes the check and POST generate is sent.
C11_TaskLengthChecked ==
    (app = "views" /\ call.op = "generate") =>
        IF call.task_len < MinTaskLen \/ call.task_len > MaxTaskLen \/ call.name = ""
        THEN FailedLocally
        ELSE request.method = "POST" /\ request.endpoint = "generate"

C11_Witness ==
    /\ app = "views"
    /\ call.op = "generate"
    /\ call.task_len = MaxTaskLen + 1
    /\ call.name # ""
    /\ FailedLocally

\* C12: list_tasks of src/api_client.py rejects a limit below 1 or above 100, and a
\* negative offset, with the invalid-argument error and without a request; a limit of
\* 1 to 100 with an offset of at least 0 is accepted and GET tasks is sent.
C12_ListBoundsChecked ==
    (app = "views" /\ call.op = "list") =>
        IF call.limit < MinLimit \/ call.limit > MaxLimit \/ call.offset < 0
        THEN FailedLocally
        ELSE request.method = "GET" /\ request.endpoint = "tasks"

C12_Witness ==
    /\ app = "views"
    /\ call.op = "list"
    /\ call.limit = MaxLimit + 1
    /\ call.offset = 0
    /\ FailedLocally

\* C13: in every client, get_task_status, cancel_task and delete_task given a task id
\* that is not a positive integer, and build_apk given an empty project name, raise the
\* invalid-argument error and send no request.
C13_MalformedInputFailsFast ==
    (\/ call.op \in { "status", "cancel", "delete" } /\ call.task_id <= 0
     \/ call.op = "build_apk" /\ call.project_name = "")
        => FailedLocally

\* C14: a 404 answer to get_task_status ends in the not-found error, whose message
\* carries the task id, and not in the generic request-failed error.
C14_NotFoundCarriesTaskId ==
    (RequestSent /\ call.op = "status" /\ call.code = 404) =>
        outcome = "NotFound" /\ errorInfo.task = call.task_id
\* the error kind the client of src/api_client.py gives a status code of its own,
\* "none" where the code has none for the operation
TableKind(op, code) ==
    CASE op = "generate" /\ code = 401 -> "AuthFailed"
      [] op = "generate" /\ code = 422 -> "ValidationError"
      [] op = "status" /\ code = 404 -> "NotFound"
      [] op = "list" /\ code = 422 -> "ValidationError"
      [] op = "cancel" /\ code = 404 -> "NotFound"
      [] op = "cancel" /\ code = 400 -> "CannotCancel"
      [] op = "cancel" /\ code = 401 -> "AuthFailed"
      [] op = "delete" /\ code = 404 -> "NotFound"
      [] op = "delete" /\ code = 401 -> "AuthFailed"
      [] op = "build_apk" /\ code = 404 -> "NotFound"
      [] op = "build_apk" /\ code = 401 -> "AuthFailed"
      [] op = "build_apk" /\ code = 422 -> "ValidationError"
      [] OTHER -> "none"

\* C15: in the client of src/api_client.py every operation and status code of the table
\* ends in the error kind listed, never in the generic request-failed error, and the
\* validation and cannot-cancel errors carry the detail the server sent.
C15_StatusCodeTable ==
    (app = "views" /\ RequestSent /\ TableKind(call.op, call.code) # "none") =>
        /\ outcome = TableKind(call.op, call.code)
        /\ (outcome \in { "ValidationError", "CannotCancel" } /\ call.has_detail)
              => errorInfo.detail = "server"

C15_Witness ==
    /\ app = "views"
    /\ call.op = "status"
    /\ call.code = 404
    /\ outcome = "NotFound"
    /\ errorInfo.task = call.task_id

Is2xx(code) == code \in 200..299
\* the status codes an operation of the running client handles itself
SpecialCased(a, op, code) == a = "views" /\ TableKind(op, code) # "none"

C18_PlaceholdersStripped ==
    (RequestSent /\ call.op = "build_apk") =>
        /\ request.body_organization # ABSENT => call.organization \notin { "", PLACEHOLDER }
        /\ request.body_timestamp # ABSENT => call.timestamp \notin { "", PLACEHOLDER }
-----------------------------------------------------------------------------
(* Start-up and rescheduling *)

\* C19: loading the settings never raises: on a missing, unreadable or corrupt file,
\* and on a file of unexpected content, the defaults are loaded, and on every file the
\* consumer builds its configuration without an exception.
C19_LoadNeverRaises ==
    /\ ~settings.raised
    /\ settings.file \in { "missing", "unreadable", "corrupt", "list", "string_with_keys" }
          => /\ settings.url = (IF app = "views" THEN DEFAULT_BASE_URL ELSE DEFAULT_API_URL)
             /\ settings.key = ""

\* C20: after a successful fetch of a status other than PENDING and RUNNING, of a task
\* whose APK is not BUILDING, the poller schedules no further fetch.
C20_NoRescheduleOnOtherStatus ==
    (/\ FetchedSnapshot
     /\ lastOp.resp.status \notin { "PENDING", "RUNNING" }
     /\ lastOp.resp.apk # "BUILDING")
        => timers = 0
-----------------------------------------------------------------------------
(* The poller: termination, configuration, the task it fetches, the form *)

\* C21: when the task reaches a terminal status with no APK build running, and only
\* some status requests fail, the poller, its timers firing, comes to have no status
\* request scheduled and stays so.
C21_PollingStops == <>[](timers = 0)

C21_Witness ==
    /\ app = "views"
    /\ prevStatus = "ERR"
    /\ lastOp.op = "auto_check"
    /\ FinishedSnapshot(lastOp.resp)
    /\ timers = 0
\* the base URL that set_base_url gives the client for the URL being saved
SavedBaseUrl ==
    IF app = "views" THEN ApiClient_normalize_base_url(save.url)
                     ELSE MainClient_normalize(save.url)

\* C22: a status request built while the settings are being saved has a base URL that
\* is the value the client held before the save or the value the save gives it, and
\* an API key that is the old or the new key, never anything in between.
C22_ConfigReadAtomically ==
    (request.method = "GET" /\ request.endpoint = "status") =>
        /\ request.base \in { save.oldUrl, SavedBaseUrl }
        /\ app = "main" => request.query_api_key \in { save.oldKey, save.key }

C22_Witness ==
    /\ save.pc = "set_key"
    /\ request.method = "GET"
    /\ request.base # save.oldUrl
    /\ app = "main"
    /\ request.query_api_key = save.oldKey
    /\ save.oldKey # save.key
\* C27: when the save-settings handler has ended in failure the client holds the URL
\* and the key it held before, and when it has ended in success the file and the
\* client hold the URL and the key of the same input.
C27_SaveConsistent ==
    /\ save.pc = "failed" => base_url = save.oldUrl /\ api_key = save.oldKey
    /\ save.pc = "done" =>
          /\ file = [ url |-> save.url, key |-> save.key ]
          /\ base_url = SavedBaseUrl
          /\ api_key = save.key
-----------------------------------------------------------------------------
(* The task views *)

\* C23: a view offers Build APK or Retry APK Build only for a task whose status is
\* COMPLETED, whatever its apk_build_status.
C23_BuildOnlyWhenCompleted ==
    (card.build \/ card.retry) => card.task.status = "COMPLETED"

\* C24: a click on Build APK in the generator view or the task list, on a COMPLETED
\* task whose result path parses, sends exactly one POST build-apk request.
C24_BuildClickSendsOnePost ==
    (/\ card.view \in { "generator", "list" }
     /\ card.clicked.status = "COMPLETED"
     /\ card.clicked.path = "parsable")
        => card.posts = 1
-----------------------------------------------------------------------------
(* The poll chains *)

\* C25: every automatic status fetch requests the task its chain was started for,
\* even when a later generate has set another current task id in the meantime.
C25_ChainFetchesItsOwnTask ==
    lastOp.op = "auto_check" => lastOp.task = chain.fired
\* C26: in main.py, whenever a submission has been polled and no poll timer is
\* pending, the generate button is enabled and the progress indicator is hidden.
C26_FormUnlockedWhenPollingStopped ==
    (app = "main" /\ lastOp.resp # NoResponse /\ timers = 0)
        => (~generate_disabled /\ ~progress_visible)
-----------------------------------------------------------------------------
(* The task list *)

\* C28: after any sequence of next-page, previous-page, filter-change, refresh, cancel
\* and delete actions, whatever totals the server reports, offset is a non-negative
\* multiple of limit, limit is within [1, 100], list_tasks never fails its local
\* validation, and a filter change leaves offset at 0.
C28_PaginationValid ==
    /\ list.offset >= 0
    /\ list.offset % list.limit = 0
    /\ list.limit >= MinLimit /\ list.limit <= MaxLimit
    /\ ~list.failed_local
    /\ list.op = "filter" => list.offset = 0

\* the list was on a later page when the filter was changed
C28_Witness ==
    list.op = "filter" /\ list.before > 0 /\ list.offset = 0 /\ list.filter # ""
-----------------------------------------------------------------------------
(* The API key in log messages and in requests *)

\* C29: no message the client of src/api_client.py passes to the log sink (request
\* headers, request payload, error text) contains the configured API key.
C29_KeyNeverLogged ==
    (app = "views" /\ api_key # "") => \A m \in logged : m.api_key # api_key

\* C30: the API key is never sent in the query string; status, list and health
\* requests carry no key at all; the key travels only in the JSON body of
\* generate, cancel and build requests and in the api-key header of delete and build.
C30_KeyOnlyInBodyOrHeader ==
    /\ request.query_api_key = ABSENT
    /\ request.endpoint \in { "status", "tasks", "health" }
          => request.header_api_key = ABSENT /\ request.body_api_key = ABSENT
    /\ request.body_api_key # ABSENT => request.endpoint \in { "generate", "cancel", "build-apk" }
    /\ request.header_api_key # ABSENT => request.endpoint \in { "task", "build-apk" }
====
